---- MODULE Spec2Model ----
(***************************************************************************)
(* DocStore (src/Main.py): document ingestion (add_document), the search   *)
(* query compiler (parse_search_query / search_documents) and the archive  *)
(* flag (toggle_archive), over the three tables Documents, Files, Tags     *)
(* and the local storage directory.                                        *)
(*                                                                         *)
(* Text is a sequence of one-character strings, so that split, strip,      *)
(* prefix tests and SQL LIKE are computed character by character.  A few   *)
(* opaque pieces of text (a digest, the storage directory name, SQL NULL)  *)
(* are one symbol of a sequence.                                           *)
(***************************************************************************)
EXTENDS Integers, Sequences, FiniteSets, TLC

VARIABLES Documents, Files, Tags, disk, clock, calls, ret

vars == <<Documents, Files, Tags, disk, clock, calls, ret>>

(* ------------------------------ bounds --------------------------------- *)
MaxCalls == 2
MaxClock == 2

(* ------------------------------ text ----------------------------------- *)
Min(a, b) == IF a < b THEN a ELSE b

Drop(s, n) == SubSeq(s, n + 1, Len(s))

StartsWith(s, p) == Len(s) >= Len(p) /\ SubSeq(s, 1, Len(p)) = p

IsSpace(c) == c = " "

RECURSIVE LStrip(_)
LStrip(s) == IF s # <<>> /\ IsSpace(Head(s)) THEN LStrip(Tail(s)) ELSE s

RECURSIVE RStrip(_)
RStrip(s) ==
  IF s # <<>> /\ IsSpace(s[Len(s)]) THEN RStrip(SubSeq(s, 1, Len(s) - 1)) ELSE s

Strip(s) == RStrip(LStrip(s))

\* str.split(sep) for a one-character sep: every occurrence separates, empty
\* pieces are kept.
RECURSIVE Split(_, _)
Split(s, sep) ==
  IF \A i \in 1..Len(s) : s[i] # sep
  THEN <<s>>
  ELSE LET i == CHOOSE j \in 1..Len(s) :
                  s[j] = sep /\ \A k \in 1..(j - 1) : s[k] # sep
       IN <<SubSeq(s, 1, i - 1)>> \o Split(Drop(s, i), sep)

\* re.split(r'\s+', s): every maximal run of whitespace separates.
RECURSIVE ReSplitSpaces(_)
ReSplitSpaces(s) ==
  IF \A i \in 1..Len(s) : ~IsSpace(s[i])
  THEN <<s>>
  ELSE LET i == CHOOSE j \in 1..Len(s) :
                  IsSpace(s[j]) /\ \A k \in 1..(j - 1) : ~IsSpace(s[k])
       IN <<SubSeq(s, 1, i - 1)>> \o ReSplitSpaces(LStrip(Drop(s, i)))

RECURSIVE Join(_, _)
Join(ss, sep) ==
  IF ss = <<>> THEN <<>>
  ELSE IF Len(ss) = 1 THEN ss[1]
  ELSE ss[1] \o sep \o Join(Tail(ss), sep)

UpperCase == <<"A", "B", "C", "D", "E", "F", "G", "H", "I", "J", "K", "L", "M",
               "N", "O", "P", "Q", "R", "S", "T", "U", "V", "W", "X", "Y", "Z">>
LowerCase == <<"a", "b", "c", "d", "e", "f", "g", "h", "i", "j", "k", "l", "m",
               "n", "o", "p", "q", "r", "s", "t", "u", "v", "w", "x", "y", "z">>

\* SQLite's LIKE folds the case of ASCII letters.
Fold(c) ==
  IF \E i \in 1..Len(UpperCase) : UpperCase[i] = c
  THEN LowerCase[CHOOSE i \in 1..Len(UpperCase) : UpperCase[i] = c]
  ELSE c

\* text LIKE pat in SQLite: % matches any run, _ any one character, letters
\* match regardless of case.
RECURSIVE Like(_, _)
Like(text, pat) ==
  IF pat = <<>> THEN text = <<>>
  ELSE IF Head(pat) = "%"
       THEN Like(text, Tail(pat)) \/ (text # <<>> /\ Like(Tail(text), pat))
       ELSE /\ text # <<>>
            /\ (Head(pat) = "_" \/ Fold(Head(pat)) = Fold(Head(text)))
            /\ Like(Tail(text), Tail(pat))

\* f"%{v}%"
Wrap(v) == <<"%">> \o v \o <<"%">>

\* SQL NULL / Python None in a result column.
NULL == <<"<NULL>">>

(* ------------------------------ time ----------------------------------- *)
\* A clock reading is a tick; two ticks make a year, starting in 2023.
YearOf(t) == 2023 + (t \div 2)

DigitChar == <<"0", "1", "2", "3", "4", "5", "6", "7", "8", "9">>

\* strftime('%Y', created_at): the year as four digits.
StrftimeYear(t) ==
  LET y == YearOf(t)
  IN <<DigitChar[((y \div 1000) % 10) + 1], DigitChar[((y \div 100) % 10) + 1],
       DigitChar[((y \div 10) % 10) + 1], DigitChar[(y % 10) + 1]>>

\* str(datetime.now()): the year, then the rest of the reading.
DateTimeStr(t) == StrftimeYear(t) \o <<"-", DigitChar[(t % 2) + 1]>>

(* ----------------------------- digests --------------------------------- *)
\* hashlib.md5(...).hexdigest(): collision-free, one opaque symbol.
Md5Hex(s) == <<ToString(s)>>

\* compute_sha256: the digest of the whole content, collision-free.
compute_sha256(bytes) == <<"sha256", bytes>>

\* magic.Magic(mime=True).from_buffer: classifies by the leading bytes.
TextPlain == <<"t", "e", "x", "t", "/", "p", "l", "a", "i", "n">>
ApplicationPdf ==
  <<"a", "p", "p", "l", "i", "c", "a", "t", "i", "o", "n", "/", "p", "d", "f">>

from_buffer(buf) ==
  IF StartsWith(buf, <<37>>) THEN ApplicationPdf ELSE TextPlain

(* --------------------------- add_document ------------------------------ *)
STORAGE_PATH == <<"document_storage">>

LocalPath(document_id, filename) ==
  STORAGE_PATH \o <<"/">> \o document_id \o <<"_">> \o filename

DocIds == {d.document_id : d \in Documents}

\* tags = [tag.strip() for tag in tags.split(",")] if tags else []
TagList(tags) ==
  IF tags # <<>>
  THEN [i \in 1..Len(Split(tags, ",")) |-> Strip(Split(tags, ",")[i])]
  ELSE <<>>

\* open(local_path, "wb") followed by the copy of the given bytes.
Put(d, p, b) == [x \in (DOMAIN d) \cup {p} |-> IF x = p THEN b ELSE d[x]]

FileRow(document_id, file, file_id) ==
  [file_id     |-> file_id,
   document_id |-> document_id,
   filename    |-> file.name,
   filesize    |-> Len(file.bytes),
   mimetype    |-> from_buffer(SubSeq(file.bytes, 1, Min(1024, Len(file.bytes)))),
   sha256      |-> compute_sha256(file.bytes),
   local_path  |-> LocalPath(document_id, file.name)]

\* The disk after the loop body ran to its end for the first n files.
RECURSIVE WriteFiles(_, _, _, _)
WriteFiles(d, document_id, files, n) ==
  IF n = 0 THEN d
  ELSE Put(WriteFiles(d, document_id, files, n - 1),
           LocalPath(document_id, files[n].name), files[n].bytes)

\* A fault is an exception raised by the environment while the call runs:
\* at = 0 none; at = k in 1..n while file k is hashed, read, copied or
\* recorded, with written = -1 when its target was not opened yet and
\* otherwise the number of bytes that reached the disk; at = n + 1 while the
\* Tags rows are inserted.
NoFault == [at |-> 0, written |-> -1]

Faults(files) ==
  {NoFault} \cup
  UNION {{[at |-> k, written |-> w] : w \in -1..Len(files[k].bytes)} :
           k \in 1..Len(files)} \cup
  {[at |-> Len(files) + 1, written |-> -1]}

\* (mutation of Rollback: every statement was committed as it ran)
Rollback_autocommit(before, txn) == txn

\* The connection is dropped without commit: the transaction is rolled back.
Rollback(before, txn) == before

\* conn.commit()
Commit(before, txn) == txn

\* cursor.execute("INSERT INTO Documents ...") on the primary key.
InsertDocument(docs, row) ==
  IF row.document_id \in {d.document_id : d \in docs}
  THEN [status |-> "IntegrityError", docs |-> docs]
  ELSE [status |-> "ok", docs |-> docs \cup {row}]

\* INSERT OR IGNORE INTO Tags for every non-empty tag.
InsertTags(tagrows, document_id, taglist) ==
  tagrows \cup {[document_id |-> document_id, tag |-> taglist[i]] :
                   i \in {j \in 1..Len(taglist) : taglist[j] # <<>>}}

add_document(title, notes, tags, files, now1, now2, fault) ==
  LET document_id == Md5Hex(title \o DateTimeStr(now1))
      created_at  == now2
      taglist     == TagList(tags)
      before      == [Documents |-> Documents, Files |-> Files, Tags |-> Tags]
      ins         == InsertDocument(Documents,
                        [document_id |-> document_id, title |-> title,
                         notes |-> notes, created_at |-> created_at,
                         archived |-> 0])
      n           == Len(files)
      done        == IF fault.at \in 1..n THEN fault.at - 1 ELSE n
      disk1       == WriteFiles(disk, document_id, files, done)
      disk2       == IF fault.at \in 1..n /\ fault.written >= 0
                     THEN Put(disk1, LocalPath(document_id, files[fault.at].name),
                              SubSeq(files[fault.at].bytes, 1, fault.written))
                     ELSE disk1
      txn         == [Documents |-> ins.docs,
                      Files |-> Files \o [k \in 1..done |->
                                  FileRow(document_id, files[k], Len(Files) + k)],
                      Tags |-> IF fault.at = 0
                               THEN InsertTags(Tags, document_id, taglist)
                               ELSE Tags]
  IN IF ins.status # "ok"
     THEN [status |-> ins.status, document_id |-> document_id,
           db |-> Rollback(before, before), disk |-> disk]
     ELSE IF fault.at # 0
     THEN [status |-> "OSError", document_id |-> document_id,
           db |-> Rollback(before, txn), disk |-> disk2]
     ELSE [status |-> "ok", document_id |-> document_id,
           db |-> Commit(before, txn), disk |-> disk2]

(* ---------------------------- toggle_archive --------------------------- *)
\* (mutation of toggle_archive: the UPDATE without its WHERE clause)
toggle_archive_all(docs, document_id, archive) ==
  {[d EXCEPT !.archived = IF archive THEN 1 ELSE 0] : d \in docs}

\* UPDATE Documents SET archived = ? WHERE document_id = ?
toggle_archive(docs, document_id, archive) ==
  {IF d.document_id = document_id
   THEN [d EXCEPT !.archived = IF archive THEN 1 ELSE 0]
   ELSE d : d \in docs}

(* --------------------------- parse_search_query ------------------------ *)
TAG == <<"t", "a", "g", ":">>
YEAR == <<"y", "e", "a", "r", ":">>
MIME == <<"m", "i", "m", "e", ":">>
AND == <<"A", "N", "D">>
OR == <<"O", "R">>

\* tokens = re.split(r'\s+', query.strip())
Tokenize(query) == ReSplitSpaces(Strip(query))

\* The branch of the if/elif chain a token takes.
Kind(token) ==
  IF StartsWith(token, TAG) THEN "tag"
  ELSE IF StartsWith(token, YEAR) THEN "year"
  ELSE IF StartsWith(token, MIME) THEN "mime"
  ELSE IF StartsWith(token, <<"-">>) THEN "exclude"
  ELSE IF token \in {AND, OR} THEN "keyword"
  ELSE "literal"

OfKind(tokens, kind) == SelectSeq(tokens, LAMBDA t : Kind(t) = kind)

\* The values appended to one of the lists tags, years, mimes, excludes.
Values(tokens, kind, prefixLen) ==
  [i \in 1..Len(OfKind(tokens, kind)) |-> Drop(OfKind(tokens, kind)[i], prefixLen)]

\* parse_search_query returns the statement and the parameter list.  The
\* statement is kept as its shape: how many placeholders each appended clause
\* holds, in the order the clauses are appended to the text, and the
\* fragments of `conditions` ("LIT" is "(d.title LIKE ? OR d.notes LIKE ?)").
parse_search_query(query) ==
  LET tokens   == Tokenize(query)
      tags     == Values(tokens, "tag", 4)
      years    == Values(tokens, "year", 5)
      mimes    == Values(tokens, "mime", 5)
      excludes == Values(tokens, "exclude", 1)
      literals == OfKind(tokens, "literal")
      conds    == SelectSeq(tokens, LAMBDA t : Kind(t) \in {"keyword", "literal"})
      litParams == [i \in 1..(2 * Len(literals)) |-> Wrap(literals[(i + 1) \div 2])]
  IN [sql |-> [tags       |-> Len(tags),
               years      |-> Len(years),
               mimes      |-> Len(mimes),
               excludes   |-> IF Len(excludes) > 0 THEN 2 ELSE 0,
               conditions |-> [i \in 1..Len(conds) |->
                                 IF conds[i] = AND THEN "AND"
                                 ELSE IF conds[i] = OR THEN "OR" ELSE "LIT"]],
      params |-> litParams
                 \o tags
                 \o years
                 \o [i \in 1..Len(mimes) |-> Wrap(mimes[i])]
                 \o [i \in 1..Len(excludes) |-> Wrap(excludes[i])]
                 \o [i \in 1..Len(excludes) |-> Wrap(excludes[i])]]

(* ------------------------------ the engine ----------------------------- *)
\* " AND " + " ".join(conditions) is an expression when terms and operators
\* alternate, starting and ending with a term.
WellFormed(conditions) ==
  \/ conditions = <<>>
  \/ /\ Len(conditions) % 2 = 1
     /\ \A i \in 1..Len(conditions) :
          IF i % 2 = 1 THEN conditions[i] = "LIT" ELSE conditions[i] \in {"AND", "OR"}

NumLiterals(sql) == Len(SelectSeq(sql.conditions, LAMBDA c : c = "LIT"))

Placeholders(sql) ==
  sql.tags + sql.years + sql.mimes + sql.excludes + 2 * NumLiterals(sql)

\* The WHERE clause for row d, the parameters bound to the placeholders by
\* position.  AND binds tighter than OR.
RECURSIVE Chain(_, _, _, _, _)
Chain(d, sql, lp, k, acc) ==
  IF k > NumLiterals(sql) THEN acc
  ELSE LET lit == Like(d.title, lp[2 * k - 1]) \/ Like(d.notes, lp[2 * k])
           op  == IF k = 1 THEN "AND" ELSE sql.conditions[2 * k - 2]
       IN IF op = "AND"
          THEN Chain(d, sql, lp, k + 1, acc /\ lit)
          ELSE acc \/ Chain(d, sql, lp, k + 1, lit)

\* (mutation of TagGroup: the tag tests joined by AND)
TagGroup_and(d, tp) ==
  \A i \in 1..Len(tp) :
    d.document_id \in {r.document_id : r \in {x \in Tags : x.tag = tp[i]}}

\* d.document_id IN (SELECT document_id FROM Tags WHERE tag = ? OR tag = ? ...)
TagGroup(d, tp) ==
  d.document_id \in {r.document_id : r \in {x \in Tags : \E i \in 1..Len(tp) : x.tag = tp[i]}}

YearGroup(d, yp) == \E i \in 1..Len(yp) : StrftimeYear(d.created_at) = yp[i]

MimeGroup(d, mp) ==
  \E j \in 1..Len(Files) :
    /\ Files[j].document_id = d.document_id
    /\ \E i \in 1..Len(mp) : Like(Files[j].mimetype, mp[i])

ExcludeGroup(d, xp) == ~Like(d.title, xp[1]) /\ ~Like(d.notes, xp[2])

Where(d, sql, params) ==
  LET o1 == sql.tags
      o2 == o1 + sql.years
      o3 == o2 + sql.mimes
      o4 == o3 + sql.excludes
      tp == SubSeq(params, 1, o1)
      yp == SubSeq(params, o1 + 1, o2)
      mp == SubSeq(params, o2 + 1, o3)
      xp == SubSeq(params, o3 + 1, o4)
      lp == SubSeq(params, o4 + 1, Len(params))
      groups == /\ (sql.tags > 0 => TagGroup(d, tp))
                /\ (sql.years > 0 => YearGroup(d, yp))
                /\ (sql.mimes > 0 => MimeGroup(d, mp))
                /\ (sql.excludes > 0 => ExcludeGroup(d, xp))
  IN Chain(d, sql, lp, 1, groups)

\* The Tags rows of a document in the order the join visits them.
TagSeq(document_id) ==
  LET S == {r.tag : r \in {x \in Tags : x.document_id = document_id}}
  IN CHOOSE s \in [1..Cardinality(S) -> S] : \A v \in S : \E i \in DOMAIN s : s[i] = v

FileSeq(document_id) == SelectSeq(Files, LAMBDA f : f.document_id = document_id)

\* group_concat(col): the non-NULL values of the joined rows, comma-separated.
group_concat(vals) ==
  LET nn == SelectSeq(vals, LAMBDA v : v # NULL)
  IN IF nn = <<>> THEN NULL ELSE Join(nn, <<",">>)

\* Documents d LEFT JOIN Tags t LEFT JOIN Files f ... GROUP BY d.document_id:
\* one joined row per (tag, file) pair of the document, a side without rows
\* contributing one NULL.
ViewRow(d) ==
  LET ts == TagSeq(d.document_id)
      fs == FileSeq(d.document_id)
      tcol == IF ts = <<>> THEN <<NULL>> ELSE ts
      ncol == IF fs = <<>> THEN <<NULL>> ELSE [j \in 1..Len(fs) |-> fs[j].filename]
      pcol == IF fs = <<>> THEN <<NULL>> ELSE [j \in 1..Len(fs) |-> fs[j].local_path]
      nt == Len(tcol)
      nf == Len(ncol)
      J  == 1..(nt * nf)
  IN [document_id |-> d.document_id, title |-> d.title, notes |-> d.notes,
      created_at |-> d.created_at, archived |-> d.archived,
      tags        |-> group_concat([k \in J |-> tcol[((k - 1) \div nf) + 1]]),
      files       |-> group_concat([k \in J |-> ncol[((k - 1) % nf) + 1]]),
      local_paths |-> group_concat([k \in J |-> pcol[((k - 1) % nf) + 1]])]

\* ORDER BY d.created_at DESC: any order of the rows that is descending in
\* created_at (rows of equal created_at come in an order the engine chooses).
OrderByCreatedDesc(rows) ==
  {s \in [1..Cardinality(rows) -> rows] :
     /\ \A r \in rows : \E i \in DOMAIN s : s[i] = r
     /\ \A i \in 1..(Cardinality(rows) - 1) : s[i].created_at >= s[i + 1].created_at}

\* cursor.execute(sql, params); fetchall(): the possible outcomes.
search_documents(query) ==
  LET c == parse_search_query(query)
  IN IF ~WellFormed(c.sql.conditions)
     THEN {[status |-> "OperationalError", rows |-> <<>>]}
     ELSE IF Placeholders(c.sql) # Len(c.params)
     THEN {[status |-> "ProgrammingError", rows |-> <<>>]}
     ELSE {[status |-> "ok", rows |-> s] :
             s \in OrderByCreatedDesc(
                     {ViewRow(d) : d \in {x \in Documents : Where(x, c.sql, c.params)}})}

(* ------------------------------ inputs --------------------------------- *)
FilePdfX == [name |-> <<"x">>, bytes |-> <<37>>]
FileTxtY == [name |-> <<"y">>, bytes |-> <<104>>]
FileTxtX == [name |-> <<"x">>, bytes |-> <<104, 105>>]

\* What a caller submits: title, notes, the comma-separated tags, the files.
Submissions ==
  {[title |-> <<>>, notes |-> <<>>, tags |-> <<>>, files |-> <<>>],
   [title |-> <<"a">>, notes |-> <<"b">>,
    tags |-> <<"w", ",", " ", ",", " ", "w">>, files |-> <<FileTxtY>>],
   [title |-> <<"a">>, notes |-> <<>>,
    tags |-> <<"p", ",", "w">>, files |-> <<FilePdfX, FileTxtY>>],
   [title |-> <<>>, notes |-> <<"b">>, tags |-> <<>>,
    files |-> <<FilePdfX, FileTxtX>>],
   [title |-> <<"a">>, notes |-> <<>>, tags |-> <<" ", "p">>, files |-> <<>>]}

Q(tokens) == Join(tokens, <<" ">>)

W == <<"w">>
P == <<"p">>
Y2023 == <<"2", "0", "2", "3">>
Y2024 == <<"2", "0", "2", "4">>
PDF == <<"p", "d", "f">>
PLAIN == <<"p", "l", "a", "i", "n">>

GroupQueries ==
  {<<>>, <<" ", " ">>,
   Q(<<TAG \o W>>), Q(<<TAG \o P>>), Q(<<TAG \o W, TAG \o P>>),
   <<" ">> \o Q(<<TAG \o W, TAG \o W>>), Q(<<TAG>>),
   Q(<<YEAR \o Y2023>>), Q(<<YEAR \o Y2023, YEAR \o Y2024>>),
   Q(<<TAG \o W, YEAR \o Y2024>>),
   Q(<<MIME \o PDF>>), Q(<<MIME \o <<"P", "D", "F">>>>),
   Q(<<MIME \o <<"p", "_", "f">>>>), Q(<<MIME \o PDF, MIME \o PLAIN>>),
   Q(<<YEAR \o Y2023, MIME \o PDF>>), Q(<<TAG \o P, MIME \o PLAIN>>)}

TermQueries ==
  {Q(<<<<"a">>>>), Q(<<<<"a">>, <<"a">>>>),
   Q(<<<<"a">>, AND, <<"b">>>>), Q(<<<<"a">>, OR, <<"b">>>>),
   Q(<<TAG \o W, <<"a">>>>), Q(<<TAG \o P, <<"a">>, OR, <<"b">>>>),
   Q(<<<<"-", "a">>>>), Q(<<<<"-", "a">>, <<"-", "b">>>>),
   Q(<<TAG \o W, <<"-", "b">>>>), Q(<<<<"-", "b">>, <<"a">>>>)}

Queries == GroupQueries \cup TermQueries

NoRet ==
  [op |-> "init", status |-> "ok", document_id |-> <<>>,
   title |-> <<>>, tags |-> <<>>, files |-> <<>>, fault |-> NoFault,
   archive |-> FALSE, query |-> <<>>, rows |-> <<>>]

(* ------------------------------ actions -------------------------------- *)
Init ==
  /\ Documents = {}
  /\ Files = <<>>
  /\ Tags = {}
  /\ disk = <<>>
  /\ clock = 0
  /\ calls = 0
  /\ ret = NoRet

\* One call of add_document: line 112 reads the clock where the last reading
\* left it, line 113 reads it d later.
Ingest(op, s, d, fault) ==
  LET r == add_document(s.title, s.notes, s.tags, s.files, clock, clock + d, fault)
  IN /\ Documents' = r.db.Documents
     /\ Files' = r.db.Files
     /\ Tags' = r.db.Tags
     /\ disk' = r.disk
     /\ clock' = clock + d
     /\ calls' = calls + 1
     /\ ret' = [NoRet EXCEPT !.op = op, !.status = r.status,
                             !.document_id = r.document_id,
                             !.title = s.title, !.tags = s.tags,
                             !.files = s.files, !.fault = fault]

\* add_document called by a client of the repository; the environment raises
\* nothing.
AddDocument ==
  /\ calls < MaxCalls
  /\ \E s \in Submissions, d \in 0..1 :
       /\ clock + d <= MaxClock
       /\ Ingest("add_document", s, d, NoFault)

\* add_document while the environment raises an exception in the file loop or
\* in the Tags inserts.
AddDocumentFault ==
  /\ calls < MaxCalls
  /\ \E s \in Submissions, d \in 0..1 :
       /\ clock + d <= MaxClock
       /\ \E fault \in Faults(s.files) \ {NoFault} :
            Ingest("add_document", s, d, fault)

\* The "Save" button of the add form: if submit and title and files.
SubmitForm ==
  /\ calls < MaxCalls
  /\ \E s \in Submissions, d \in 0..1 :
       /\ s.title # <<>>
       /\ s.files # <<>>
       /\ clock + d <= MaxClock
       /\ Ingest("add_form", s, d, NoFault)

UnknownId == <<"unknown">>

ToggleArchive ==
  \E document_id \in DocIds \cup {UnknownId}, archive \in BOOLEAN :
    /\ Documents' = toggle_archive(Documents, document_id, archive)
    /\ ret' = [NoRet EXCEPT !.op = "toggle_archive",
                            !.document_id = document_id, !.archive = archive]
    /\ UNCHANGED <<Files, Tags, disk, clock, calls>>

SearchDocuments ==
  \E query \in Queries :
    \E r \in search_documents(query) :
      /\ ret' = [NoRet EXCEPT !.op = "search_documents", !.status = r.status,
                              !.query = query, !.rows = r.rows]
      /\ UNCHANGED <<Documents, Files, Tags, disk, clock, calls>>

Next == AddDocument \/ AddDocumentFault \/ ToggleArchive \/ SearchDocuments

Spec == Init /\ [][Next]_vars

\* Ingestion and search in a fault-free environment.
SearchNext == AddDocument \/ SearchDocuments

SearchSpec == Init /\ [][SearchNext]_vars

\* The store without queries: ingestion, with and without faults, and the
\* archive flag.
StoreNext == AddDocument \/ AddDocumentFault \/ ToggleArchive

StoreSpec == Init /\ [][StoreNext]_vars

\* The program as the add form drives it.
FormNext == SubmitForm \/ ToggleArchive \/ SearchDocuments

FormSpec == Init /\ [][FormNext]_vars

(* ------------------------- reading of the claims ----------------------- *)
\* The tokens a user typed: the whitespace-separated words of the query.
Words(query) == SelectSeq(Tokenize(query), LAMBDA t : t # <<>>)

WordValues(query, kind, prefixLen) ==
  {Drop(t, prefixLen) : t \in {Words(query)[i] : i \in
      {j \in 1..Len(Words(query)) : Kind(Words(query)[j]) = kind}}}

RowIds(rows) == {rows[i].document_id : i \in 1..Len(rows)}

\* v occurs in text, character for character.
IsSubstring(v, text) ==
  \E i \in 0..(Len(text) - Len(v)) : SubSeq(text, i + 1, i + Len(v)) = v

\* Some substring of text matches v as a LIKE pattern: letters regardless of
\* case, _ for any one character, % for any run.
LikeSubstring(v, text) ==
  \E i \in 1..(Len(text) + 1) : \E j \in (i - 1)..Len(text) :
    Like(SubSeq(text, i, j), v)

TagSatisfied(d, query) ==
  LET V == WordValues(query, "tag", 4)
  IN V = {} \/ \E v \in V : [document_id |-> d.document_id, tag |-> v] \in Tags

YearSatisfied(d, query) ==
  LET V == WordValues(query, "year", 5)
  IN V = {} \/ StrftimeYear(d.created_at) \in V

MimeSatisfied(d, query, Match(_, _)) ==
  LET V == WordValues(query, "mime", 5)
  IN V = {} \/ \E v \in V : \E j \in 1..Len(Files) :
       Files[j].document_id = d.document_id /\ Match(v, Files[j].mimetype)

ExcludeSatisfied(d, query) ==
  \A v \in WordValues(query, "exclude", 1) :
    ~LikeSubstring(v, d.title) /\ ~LikeSubstring(v, d.notes)

OnlyGroupWords(query) ==
  \A i \in 1..Len(Words(query)) : Kind(Words(query)[i]) \in {"tag", "year", "mime"}

OnceEach(rows) ==
  \A i, j \in 1..Len(rows) : rows[i].document_id = rows[j].document_id => i = j

NewestFirst(rows) ==
  \A i \in 1..(Len(rows) - 1) : rows[i].created_at >= rows[i + 1].created_at

GroupRows(query, Match(_, _)) ==
  /\ ret.status = "ok"
  /\ RowIds(ret.rows) =
       {d.document_id : d \in {x \in Documents :
           TagSatisfied(x, query) /\ YearSatisfied(x, query)
           /\ MimeSatisfied(x, query, Match)}}
  /\ OnceEach(ret.rows)
  /\ NewestFirst(ret.rows)

RECURSIVE TermExpr(_, _, _, _)
TermExpr(d, conds, k, acc) ==
  IF k > Len(conds) THEN acc
  ELSE LET lit == LikeSubstring(conds[k], d.title) \/ LikeSubstring(conds[k], d.notes)
       IN IF k = 1 \/ conds[k - 1] = AND
          THEN TermExpr(d, conds, k + 2, acc /\ lit)
          ELSE acc \/ TermExpr(d, conds, k + 2, lit)

Conds(query) ==
  SelectSeq(Words(query), LAMBDA t : Kind(t) \in {"keyword", "literal"})

\* Literal terms joined by explicit AND / OR keywords.
TermsJoined(query) ==
  /\ Len(Conds(query)) % 2 = 1
  /\ \A i \in 1..Len(Conds(query)) :
       IF i % 2 = 1 THEN Kind(Conds(query)[i]) = "literal"
       ELSE Kind(Conds(query)[i]) = "keyword"

\* C2: a query that combines literal terms joined by AND / OR with tag:, year:,
\* mime: or exclusion words returns exactly the documents that satisfy every
\* non-empty group, the exclusion group and the literal expression.
C2_TermsAndGroups ==
  (ret.op = "search_documents" /\ TermsJoined(ret.query))
    => /\ ret.status = "ok"
       /\ RowIds(ret.rows) =
            {d.document_id : d \in {x \in Documents :
                /\ TagSatisfied(x, ret.query)
                /\ YearSatisfied(x, ret.query)
                /\ MimeSatisfied(x, ret.query, LikeSubstring)
                /\ ExcludeSatisfied(x, ret.query)
                /\ TermExpr(x, Conds(ret.query), 1, TRUE)}}

(* --------------------------------- C3 ---------------------------------- *)
OnlyExcludeWords(query) ==
  /\ Len(Words(query)) >= 1
  /\ \A i \in 1..Len(Words(query)) : Kind(Words(query)[i]) = "exclude"

\* C3: a query of one or more exclusion words completes and returns exactly
\* the documents whose title and notes contain none of the excluded values.
C3_Exclusions ==
  (ret.op = "search_documents" /\ OnlyExcludeWords(ret.query))
    => /\ ret.status = "ok"
       /\ RowIds(ret.rows) =
            {d.document_id : d \in {x \in Documents : ExcludeSatisfied(x, ret.query)}}

(* --------------------------------- C4 ---------------------------------- *)
TrimmedTags(tags) ==
  {Strip(Split(tags, ",")[i]) : i \in 1..Len(Split(tags, ","))} \ {<<>>}

\* C4: a call of add_document with a non-empty title and a non-empty file
\* list, whatever the titles and the clock readings, succeeds and returns an
\* id that names exactly one Documents row, with one Files row per submitted
\* file and one Tags row per distinct non-empty trimmed tag.
C4_ValidCallSucceeds ==
  (ret.op = "add_document" /\ ret.title # <<>> /\ ret.files # <<>>
     /\ ret.fault = NoFault)
    => /\ ret.status = "ok"
       /\ Cardinality({d \in Documents : d.document_id = ret.document_id}) = 1
       /\ Len(FileSeq(ret.document_id)) = Len(ret.files)
       /\ {r.tag : r \in {x \in Tags : x.document_id = ret.document_id}}
            = TrimmedTags(ret.tags)

(* --------------------------------- C5 ---------------------------------- *)
\* C5: a call of add_document that fails leaves the three tables as they
\* were; a call that succeeds adds its Documents row, one Files row per file
\* and its Tags rows in the same step; no other step adds a row.
C5_Step ==
  /\ (calls' # calls /\ ret'.status # "ok")
       => (Documents' = Documents /\ Files' = Files /\ Tags' = Tags)
  /\ (calls' # calls /\ ret'.status = "ok")
       => /\ ret'.document_id \notin DocIds
          /\ \E d \in Documents' :
               d.document_id = ret'.document_id /\ Documents' = Documents \cup {d}
          /\ Len(Files') = Len(Files) + Len(ret'.files)
          /\ SubSeq(Files', 1, Len(Files)) = Files
          /\ \A k \in (Len(Files) + 1)..Len(Files') :
               Files'[k].document_id = ret'.document_id
          /\ Tags \subseteq Tags'
          /\ \A r \in Tags' \ Tags : r.document_id = ret'.document_id
  /\ (calls' = calls)
       => (DocIds' = DocIds /\ Files' = Files /\ Tags' = Tags)

C5_AllOrNothing == [][C5_Step]_vars

\* A call failed on its second file or later: its first file is on disk, but
\* no row of it is in the tables.
C5_Witness ==
  /\ ret.op = "add_document"
  /\ ret.status = "OSError"
  /\ ret.fault.at >= 2
  /\ LocalPath(ret.document_id, ret.files[1].name) \in DOMAIN disk
  /\ ret.document_id \notin DocIds
  /\ Documents # {}

(* --------------------------------- C6 ---------------------------------- *)
\* C6: for every Files row, the bytes on disk at its local_path hash to the
\* row's sha256 and have the row's filesize as length.
C6_HashRoundTrip ==
  \A j \in 1..Len(Files) :
    /\ Files[j].local_path \in DOMAIN disk
    /\ compute_sha256(disk[Files[j].local_path]) = Files[j].sha256
    /\ Len(disk[Files[j].local_path]) = Files[j].filesize

(* --------------------------------- C7 ---------------------------------- *)
\* C7: add_document with an empty title or an empty file list fails with a
\* validation error and persists nothing; no Documents row has an empty title
\* or zero Files rows.
C7_Validation ==
  /\ (ret.op = "add_document" /\ (ret.title = <<>> \/ ret.files = <<>>))
       => ret.status = "ValidationError"
  /\ \A d \in Documents : d.title # <<>> /\ FileSeq(d.document_id) # <<>>

(* --------------------------------- C8 ---------------------------------- *)
\* C8: a toggle_archive call changes nothing but the archived flag of the
\* document it names (nothing at all for an unknown id); applied twice it
\* equals applied once; toggle_archive(id, not a) then toggle_archive(id, a)
\* restores the store.
C8_Step ==
  (calls' = calls /\ ret'.op = "toggle_archive") =>
    LET id == ret'.document_id
        b  == ret'.archive
    IN /\ Files' = Files /\ Tags' = Tags /\ disk' = disk
       /\ Documents' =
            {IF d.document_id = id
             THEN [document_id |-> d.document_id, title |-> d.title,
                   notes |-> d.notes, created_at |-> d.created_at,
                   archived |-> IF b THEN 1 ELSE 0]
             ELSE d : d \in Documents}
       /\ (id \notin DocIds => Documents' = Documents)
       /\ toggle_archive(Documents', id, b) = Documents'
       /\ \A d \in Documents :
            (d.document_id = id /\ b = (d.archived = 0))
              => toggle_archive(Documents', id, ~b) = Documents

C8_ArchiveFlagOnly == [][C8_Step]_vars

\* A document was unarchived while another one stays archived.
C8_Witness ==
  /\ ret.op = "toggle_archive"
  /\ ~ret.archive
  /\ \E d, e \in Documents :
       /\ d.document_id = ret.document_id
       /\ d.archived = 0
       /\ e.document_id # d.document_id
       /\ e.archived = 1
  /\ Len(Files) >= 1

(* --------------------------------- C9 ---------------------------------- *)
\* The query with its i-th word written a second time right after it.
Repeated(query, i) ==
  LET w == Words(query)
  IN Q(SubSeq(w, 1, i) \o <<w[i]>> \o SubSeq(w, i + 1, Len(w)))

\* C9: writing any word of a query a second time right after its first
\* occurrence makes search_documents complete and return the same rows in the
\* same order.
C9_RepeatIdempotent ==
  (ret.op = "search_documents")
    => \A i \in 1..Len(Words(ret.query)) :
         /\ \A o \in search_documents(Repeated(ret.query, i)) : o.status = "ok"
         /\ search_documents(Repeated(ret.query, i)) = search_documents(ret.query)

(* --------------------------------- C10 --------------------------------- *)
\* col.split(",") if col else []
SplitColumn(col) == IF col = NULL \/ col = <<>> THEN <<>> ELSE Split(col, ",")

Count(seq, x) == Cardinality({k \in 1..Len(seq) : seq[k] = x})

\* C10: every returned row lists each tag of its document once in 'tags' and
\* each file of its document once in 'files' and 'local_paths', position k of
\* both naming the same Files row.
C10_Row(row) ==
  LET tl == SplitColumn(row.tags)
      fl == SplitColumn(row.files)
      pl == SplitColumn(row.local_paths)
      fs == FileSeq(row.document_id)
      listed == [k \in 1..Min(Len(fl), Len(pl)) |-> <<fl[k], pl[k]>>]
      owned  == [j \in 1..Len(fs) |-> <<fs[j].filename, fs[j].local_path>>]
  IN /\ \A r \in {x \in Tags : x.document_id = row.document_id} : Count(tl, r.tag) = 1
     /\ \A k \in 1..Len(tl) :
          [document_id |-> row.document_id, tag |-> tl[k]] \in Tags
     /\ Len(fl) = Len(pl)
     /\ Len(fl) = Len(fs)
     /\ \A j \in 1..Len(fs) : Count(listed, owned[j]) = Count(owned, owned[j])

C10_RowsListOnce ==
  (ret.op = "search_documents" /\ ret.status = "ok")
    => \A i \in 1..Len(ret.rows) : C10_Row(ret.rows[i])

====
